---- MODULE Spec2Model ----
(***************************************************************************)
(* The seven example scripts of langchain-for-beginners as one state       *)
(* machine.  A run picks one script; each statement of that script is one  *)
(* step.  Framework objects and the remote model are opaque: a blocking    *)
(* framework call either returns a response drawn from a small set or      *)
(* raises, and an exception is never caught by the scripts.                *)
(***************************************************************************)
EXTENDS Integers, Sequences, FiniteSets

VARIABLES script, pc, status, osenv, dotenvFile, reads, clients, locals,
          trace, invocations, response, vector_store, agentTools,
          executorTools, toolCount, lastTool, iterI, iterJ, pairs, textsInput

vars == <<script, pc, status, osenv, dotenvFile, reads, clients, locals,
          trace, invocations, response, vector_store, agentTools,
          executorTools, toolCount, lastTool, iterI, iterJ, pairs, textsInput>>

(* ------------------------------ bounds --------------------------------- *)
\* longest word the model may pass to get_word_length
MaxWordLen == 2
\* most tool calls one model response carries
MaxToolCalls == 2
\* most tool executions inside one agent_executor.invoke
MaxAgentSteps == 2
\* most documents the retrieval chain returns as context
MaxContext == 2
\* longest text list the embeddings walkthrough is run on (TextsSpec)
MaxTexts == 4

(* --------------------------- environment ------------------------------- *)
\* Python's None (os.getenv of an unset variable)
None == <<>>

EnvVars == {"AI_MODEL", "AI_ENDPOINT", "AI_API_KEY", "AI_EMBEDDING_MODEL"}

\* os.environ before the script starts: nothing exported, everything
\* exported, only the chat model's variables, only the embedding model
ExportedSets == {{}, EnvVars, {"AI_MODEL", "AI_ENDPOINT", "AI_API_KEY"},
                 {"AI_EMBEDDING_MODEL"}}
OsEnvs == {[v \in EnvVars |-> IF v \in S THEN <<"os", v>> ELSE None] : S \in ExportedSets}

\* the .env file: absent/empty, or defining every variable
DotenvFiles == {[v \in EnvVars |-> None], [v \in EnvVars |-> <<"dotenv", v>>]}

\* load_dotenv() with its default override=False: a variable already in
\* os.environ keeps its value, the others take the file's
load_dotenv(env, file) ==
    [v \in DOMAIN env |-> IF env[v] = None THEN file[v] ELSE env[v]]

\* os.getenv(key) with the default dropped
getenvNoDefault(env, key, default) == env[key]

\* os.getenv(key, default)
getenv(env, key, default) == IF env[key] = None THEN default ELSE env[key]

(* ----------------------------- the scripts ----------------------------- *)
Scripts == {"basic_template", "structured_output", "basic_tool", "basic_agent",
            "basic_mcp", "basic_embeddings", "basic_rag"}

St(op, line, tgt, arg) == [op |-> op, line |-> line, tgt |-> tgt, arg |-> arg]

ChatEnv == <<"AI_MODEL", "AI_ENDPOINT", "AI_API_KEY">>
EmbedEnv == <<"AI_EMBEDDING_MODEL", "AI_ENDPOINT", "AI_API_KEY">>
EmbedDefault == <<"text-embedding-3-small">>

TextsLiteral == <<"The cat sat on the mat", "The feline rested on the rug",
                  "Python is a programming language">>

DocumentsLiteral ==
    <<"LangChain is a framework for building applications with large language models.",
      "LangChain provides tools for prompt management, chains, and agents.",
      "RAG stands for Retrieval-Augmented Generation, combining search with LLM generation.",
      "Vector stores help with semantic search by storing document embeddings.">>

ToolsLiteral == <<"multiply", "add">>

Prog_basic_template == <<
    St("load_dotenv", 15, "", <<>>),
    St("construct", 19, "ChatOpenAI", ChatEnv),
    St("build", 26, "template", <<>>),
    St("build", 32, "chain", <<>>),
    St("print", 35, "banner", <<>>),
    St("print", 36, "banner", <<>>),
    St("call", 39, "chain.invoke", <<"lit", "text=Hello, world!;language=French">>),
    St("print", 43, "result", <<>>),
    St("call", 46, "chain.invoke", <<"lit", "text=Hello, world!;language=Spanish">>),
    St("print", 50, "result", <<>>),
    St("call", 53, "chain.invoke", <<"lit", "text=Hello, world!;language=Japanese">>),
    St("print", 57, "result", <<>>),
    St("print", 59, "banner", <<>>),
    St("print", 60, "closing", <<>>),
    St("print", 61, "closing", <<>>) >>

Prog_structured_output == <<
    St("load_dotenv", 16, "", <<>>),
    St("construct", 28, "ChatOpenAI", ChatEnv),
    St("build", 36, "structured_model", <<>>),
    St("build", 39, "template", <<>>),
    St("build", 45, "chain", <<>>),
    St("print", 47, "banner", <<>>),
    St("print", 48, "banner", <<>>),
    St("assign", 51, "description1",
       <<"Premium wireless headphones with noise cancellation, only $199, available now">>),
    St("call", 52, "chain.invoke", <<"var", "description1">>),
    St("print", 54, "input", <<>>),
    St("print", 55, "banner", <<>>),
    St("print", 56, "result", <<>>),
    St("print", 57, "result", <<>>),
    St("print", 58, "result", <<>>),
    St("print", 59, "result", <<>>),
    St("assign", 62, "description2",
       <<"Organic cotton t-shirt in blue, comfortable fit, $29.99, currently out of stock">>),
    St("call", 63, "chain.invoke", <<"var", "description2">>),
    St("print", 65, "input", <<>>),
    St("print", 66, "banner", <<>>),
    St("print", 67, "result", <<>>),
    St("print", 68, "result", <<>>),
    St("print", 69, "result", <<>>),
    St("print", 70, "result", <<>>),
    St("print", 72, "banner", <<>>),
    St("print", 73, "closing", <<>>),
    St("print", 74, "closing", <<>>) >>

\* basic_tool with load_dotenv() called only after the model is constructed
Prog_basic_tool_LateDotenv == <<
    St("construct", 22, "ChatOpenAI", ChatEnv),
    St("load_dotenv", 14, "", <<>>),
    St("build", 29, "model_with_tools", <<>>),
    St("print", 31, "banner", <<>>),
    St("print", 32, "banner", <<>>),
    St("call", 35, "model_with_tools.invoke", <<"lit", "How long is the word 'LangChain'?">>),
    St("print", 37, "result", <<>>),
    St("if_tool_calls", 39, "", <<>>),
    St("print", 40, "tool_name", <<>>),
    St("print", 41, "tool_args", <<>>),
    St("tool_invoke", 44, "get_word_length", <<>>),
    St("print", 45, "tool_result", <<>>),
    St("print", 47, "banner", <<>>),
    St("print", 48, "closing", <<>>) >>

Prog_basic_tool == <<
    St("load_dotenv", 14, "", <<>>),
    St("construct", 22, "ChatOpenAI", ChatEnv),
    St("build", 29, "model_with_tools", <<>>),
    St("print", 31, "banner", <<>>),
    St("print", 32, "banner", <<>>),
    St("call", 35, "model_with_tools.invoke", <<"lit", "How long is the word 'LangChain'?">>),
    St("print", 37, "result", <<>>),
    St("if_tool_calls", 39, "", <<>>),
    St("print", 40, "tool_name", <<>>),
    St("print", 41, "tool_args", <<>>),
    St("tool_invoke", 44, "get_word_length", <<>>),
    St("print", 45, "tool_result", <<>>),
    St("print", 47, "banner", <<>>),
    St("print", 48, "closing", <<>>) >>

Prog_basic_agent == <<
    St("load_dotenv", 16, "", <<>>),
    St("construct", 29, "ChatOpenAI", ChatEnv),
    St("assign", 36, "tools", ToolsLiteral),
    St("call", 39, "hub.pull", <<"lit", "hwchase17/react">>),
    St("build", 42, "agent", <<>>),
    St("build", 43, "agent_executor", <<>>),
    St("print", 45, "banner", <<>>),
    St("print", 46, "banner", <<>>),
    St("call", 49, "agent_executor.invoke", <<"lit", "What is 25 multiplied by 4, plus 10?">>),
    St("print", 53, "result", <<>>),
    St("print", 54, "banner", <<>>),
    St("print", 55, "closing", <<>>) >>

Prog_basic_mcp == <<
    St("load_dotenv", 13, "", <<>>),
    St("print", 16, "banner", <<>>),
    St("print", 17, "banner", <<>>),
    St("print", 19, "banner", <<>>),
    St("print", 20, "banner", <<>>),
    St("print", 21, "banner", <<>>),
    St("print", 23, "closing", <<>>) >>

Prog_basic_embeddings == <<
    St("load_dotenv", 15, "", <<>>),
    St("construct", 19, "OpenAIEmbeddings", EmbedEnv),
    St("print", 25, "banner", <<>>),
    St("print", 26, "banner", <<>>),
    St("assign", 29, "texts", TextsLiteral),
    St("print", 35, "banner", <<>>),
    St("for_texts", 36, "input", <<>>),
    St("call", 40, "embeddings.embed_documents", <<"var", "texts">>),
    St("print", 43, "banner", <<>>),
    St("for_i", 44, "", <<>>),
    St("for_j", 45, "result", <<>>),
    St("print", 52, "banner", <<>>),
    St("print", 53, "closing", <<>>),
    St("print", 54, "closing", <<>>) >>

Prog_basic_rag == <<
    St("load_dotenv", 18, "", <<>>),
    St("assign", 22, "documents", DocumentsLiteral),
    St("construct", 30, "OpenAIEmbeddings", EmbedEnv),
    St("call", 36, "FAISS.from_documents", <<"var", "documents">>),
    St("build", 37, "retriever", <<>>),
    St("construct", 40, "ChatOpenAI", ChatEnv),
    St("assign", 47, "system_prompt", <<"You are an assistant for question-answering tasks. ...{context}">>),
    St("build", 55, "prompt", <<>>),
    St("build", 61, "question_answer_chain", <<>>),
    St("build", 62, "rag_chain", <<>>),
    St("print", 64, "banner", <<>>),
    St("print", 65, "banner", <<>>),
    St("assign", 68, "question", <<"What is RAG?">>),
    St("print", 69, "input", <<>>),
    St("call", 71, "rag_chain.invoke", <<"var", "question">>),
    St("print", 73, "result", <<>>),
    St("print", 75, "banner", <<>>),
    St("for_context", 76, "result", <<>>),
    St("print", 79, "banner", <<>>),
    St("print", 80, "closing", <<>>),
    St("print", 81, "closing", <<>>) >>

Prog(s) ==
    CASE s = "basic_template"    -> Prog_basic_template
      [] s = "structured_output" -> Prog_structured_output
      [] s = "basic_tool"        -> Prog_basic_tool
      [] s = "basic_agent"       -> Prog_basic_agent
      [] s = "basic_mcp"         -> Prog_basic_mcp
      [] s = "basic_embeddings"  -> Prog_basic_embeddings
      [] s = "basic_rag"         -> Prog_basic_rag

LocalNames == {"description1", "description2", "tools", "texts", "documents",
               "system_prompt", "question"}

\* the statement about to run
Cur == Prog(script)[pc]
AtStmt == status = "running" /\ pc <= Len(Prog(script))
Ev(ev, line, tag) == [ev |-> ev, line |-> line, tag |-> tag]

\* the calls a script makes on the chain / model / agent / embeddings object
\* it constructed (FAISS.from_documents and hub.pull build further objects)
InvokeCallees == {"chain.invoke", "model_with_tools.invoke", "agent_executor.invoke",
                  "embeddings.embed_documents", "rag_chain.invoke"}

(* ------------------------ framework and model -------------------------- *)
Range(f) == {f[k] : k \in DOMAIN f}
BSeq(S, n) == UNION {[1..k -> S] : k \in 0..n}

\* words the model may put in a tool call
Words == BSeq({"a"}, MaxWordLen)
\* the args dict of a tool call: <<w>> stands for {"word": w}, <<>> for a dict
\* that lacks the key
ToolArgs == {<<w>> : w \in Words} \cup {<<>>}
ToolCall == [name : {"get_word_length", "other_tool"}, args : ToolArgs]
Contents == {"r1", "r2"}
AgentInts == {-2, 0, 3}

NoResponse == [content |-> "", tool_calls |-> <<>>, context |-> <<>>]

\* what a blocking framework call may hand back
Responses(callee, store) ==
    CASE callee = "model_with_tools.invoke" ->
           [content : Contents, tool_calls : BSeq(ToolCall, MaxToolCalls), context : {<<>>}]
      [] callee = "rag_chain.invoke" ->
           [content : Contents, tool_calls : {<<>>}, context : BSeq(Range(store), MaxContext)]
      [] callee \in {"chain.invoke", "agent_executor.invoke"} ->
           [content : Contents, tool_calls : {<<>>}, context : {<<>>}]
      [] OTHER ->
           [content : {"ok"}, tool_calls : {<<>>}, context : {<<>>}]

(* ------------------------------ the tools ------------------------------ *)
\* the length with a terminator counted
get_word_length_plus1(word) == Len(word) + 1

get_word_length(word) == Len(word)

\* multiply with add's body
multiply_as_add(a, b) == a + b

multiply(a, b) == a * b

add(a, b) == a + b

RunTool(name, args) ==
    CASE name = "multiply" -> multiply(args[1], args[2])
      [] name = "add" -> add(args[1], args[2])
      [] name = "get_word_length" -> get_word_length(args[1])

(* ------------------------------- state --------------------------------- *)
InitRun ==
    /\ pc = 1
    /\ status = "running"
    /\ osenv \in OsEnvs
    /\ dotenvFile \in DotenvFiles
    /\ reads = {}
    /\ clients = <<>>
    /\ locals = [n \in LocalNames |-> <<>>]
    /\ trace = <<>>
    /\ invocations = <<>>
    /\ response = NoResponse
    /\ vector_store = <<>>
    /\ agentTools = <<>>
    /\ executorTools = <<>>
    /\ toolCount = 0
    /\ lastTool = [name |-> "", args |-> <<>>, result |-> 0]
    /\ iterI = 0
    /\ iterJ = 0
    /\ pairs = <<>>

Init ==
    /\ script \in Scripts
    /\ textsInput = TextsLiteral
    /\ InitRun

(* ------------------------------ statements ----------------------------- *)
\* load_dotenv() at module level
LoadDotenv ==
    /\ AtStmt /\ Cur.op = "load_dotenv"
    /\ osenv' = load_dotenv(osenv, dotenvFile)
    /\ trace' = Append(trace, Ev("load", Cur.line, ""))
    /\ pc' = pc + 1
    /\ UNCHANGED <<script, status, dotenvFile, reads, clients, locals, invocations,
                   response, vector_store, agentTools, executorTools, toolCount,
                   lastTool, iterI, iterJ, pairs, textsInput>>

ModelDefault(cls) == IF cls = "OpenAIEmbeddings" THEN EmbedDefault ELSE None

\* ChatOpenAI(model=os.getenv(..), base_url=os.getenv(..), api_key=os.getenv(..))
\* OpenAIEmbeddings(model=os.getenv(.., "text-embedding-3-small"), ...)
NewClient(cls, keys, env) ==
    [cls |-> cls,
     model |-> getenv(env, keys[1], ModelDefault(cls)),
     base_url |-> getenv(env, keys[2], None),
     api_key |-> getenv(env, keys[3], None)]

Construct ==
    /\ AtStmt /\ Cur.op = "construct"
    /\ reads' = reads \cup Range(Cur.arg)
    /\ clients' = Append(clients, NewClient(Cur.tgt, Cur.arg, osenv))
    /\ trace' = Append(trace, Ev("construct", Cur.line, Cur.tgt))
    /\ pc' = pc + 1
    /\ UNCHANGED <<script, status, osenv, dotenvFile, locals, invocations, response,
                   vector_store, agentTools, executorTools, toolCount, lastTool,
                   iterI, iterJ, pairs, textsInput>>

\* the tool list create_react_agent / AgentExecutor is given
ToolsHanded(tgt, which, old, ls) == IF tgt = which THEN ls["tools"] ELSE old

\* template, chain, bind_tools, with_structured_output, as_retriever,
\* create_*_chain, create_react_agent, AgentExecutor: compositions, no request
Build ==
    /\ AtStmt /\ Cur.op = "build"
    /\ agentTools' = ToolsHanded(Cur.tgt, "agent", agentTools, locals)
    /\ executorTools' = ToolsHanded(Cur.tgt, "agent_executor", executorTools, locals)
    /\ trace' = Append(trace, Ev("build", Cur.line, Cur.tgt))
    /\ pc' = pc + 1
    /\ UNCHANGED <<script, status, osenv, dotenvFile, reads, clients, locals,
                   invocations, response, vector_store, toolCount, lastTool,
                   iterI, iterJ, pairs, textsInput>>

\* the value a literal assignment binds
Literal(st, input) == IF st.tgt = "texts" THEN input ELSE st.arg

Assign ==
    /\ AtStmt /\ Cur.op = "assign"
    /\ locals' = [locals EXCEPT ![Cur.tgt] = Literal(Cur, textsInput)]
    /\ trace' = Append(trace, Ev("assign", Cur.line, Cur.tgt))
    /\ pc' = pc + 1
    /\ UNCHANGED <<script, status, osenv, dotenvFile, reads, clients, invocations,
                   response, vector_store, agentTools, executorTools, toolCount,
                   lastTool, iterI, iterJ, pairs, textsInput>>

PrintLine ==
    /\ AtStmt /\ Cur.op = "print"
    /\ trace' = Append(trace, Ev("print", Cur.line, Cur.tgt))
    /\ pc' = pc + 1
    /\ UNCHANGED <<script, status, osenv, dotenvFile, reads, clients, locals,
                   invocations, response, vector_store, agentTools, executorTools,
                   toolCount, lastTool, iterI, iterJ, pairs, textsInput>>

\* the previous response fed into the next call
CallInputChained(st, ls) ==
    IF response.content \in Contents THEN <<response.content>>
    ELSE IF st.arg[1] = "lit" THEN <<st.arg[2]>> ELSE ls[st.arg[2]]

\* the argument of a framework call: a literal, or a local bound to one
CallInput(st, ls) == IF st.arg[1] = "lit" THEN <<st.arg[2]>> ELSE ls[st.arg[2]]

\* the script enters a blocking framework call
CallBegin ==
    /\ AtStmt /\ Cur.op = "call"
    /\ status' = "blocked"
    /\ invocations' = IF Cur.tgt \in InvokeCallees
                      THEN Append(invocations, [callee |-> Cur.tgt,
                                                input |-> CallInput(Cur, locals)])
                      ELSE invocations
    /\ trace' = Append(trace, Ev("call", Cur.line, Cur.tgt))
    /\ UNCHANGED <<script, pc, osenv, dotenvFile, reads, clients, locals, response,
                   vector_store, agentTools, executorTools, toolCount, lastTool,
                   iterI, iterJ, pairs, textsInput>>

\* the index built from the list without its first document
StoreBuiltSkipFirst(callee, old, ls) ==
    IF callee = "FAISS.from_documents" THEN Tail(ls["documents"]) ELSE old

\* FAISS.from_documents(documents, embeddings) indexes the list it is given
StoreBuilt(callee, old, ls) ==
    IF callee = "FAISS.from_documents" THEN ls["documents"] ELSE old

\* the framework call returns
CallReturn ==
    /\ status = "blocked"
    /\ \E r \in Responses(Cur.tgt, vector_store) : response' = r
    /\ vector_store' = StoreBuilt(Cur.tgt, vector_store, locals)
    /\ status' = "running"
    /\ pc' = pc + 1
    /\ trace' = Append(trace, Ev("return", Cur.line, Cur.tgt))
    /\ UNCHANGED <<script, osenv, dotenvFile, reads, clients, locals, invocations,
                   agentTools, executorTools, toolCount, lastTool, iterI, iterJ,
                   pairs, textsInput>>

\* the exception swallowed: the script carries on with the next statement
Swallowed(st) == "running"

\* what an exception raised by a framework call leaves behind: no script
\* has a try/except, so the interpreter prints the traceback and exits
Unhandled(st) == "error"

\* a constructor, a composition or a blocking call raises
Raise ==
    /\ \/ AtStmt /\ Cur.op \in {"construct", "build"}
       \/ status = "blocked"
    /\ status' = Unhandled(status)
    /\ trace' = Append(trace, Ev("raise", Cur.line, Cur.tgt))
    /\ UNCHANGED <<script, pc, osenv, dotenvFile, reads, clients, locals,
                   invocations, response, vector_store, agentTools, executorTools,
                   toolCount, lastTool, iterI, iterJ, pairs, textsInput>>

\* inside agent_executor.invoke the framework runs one of the executor's tools
AgentToolStep ==
    /\ status = "blocked" /\ Cur.tgt = "agent_executor.invoke"
    /\ toolCount < MaxAgentSteps
    /\ \E name \in Range(executorTools), a \in AgentInts, b \in AgentInts :
          lastTool' = [name |-> name, args |-> <<a, b>>,
                       result |-> RunTool(name, <<a, b>>)]
    /\ toolCount' = toolCount + 1
    /\ UNCHANGED <<script, pc, status, osenv, dotenvFile, reads, clients, locals,
                   trace, invocations, response, vector_store, agentTools,
                   executorTools, iterI, iterJ, pairs, textsInput>>

(* ------------------------- basic_tool: lines 39-45 --------------------- *)
\* the branch target set to the `if` itself
EndIfSelf(prog) == CHOOSE k \in 1..Len(prog) : prog[k].op = "if_tool_calls"

\* the first statement after the body of `if response.tool_calls:`
EndIf(prog) == CHOOSE k \in 1..Len(prog) : prog[k].line = 47

\* `if response.tool_calls:` is true of a non-empty list
Truthy(list) == list # <<>>

IfToolCalls ==
    /\ AtStmt /\ Cur.op = "if_tool_calls"
    /\ pc' = IF Truthy(response.tool_calls) THEN pc + 1 ELSE EndIf(Prog(script))
    /\ UNCHANGED <<script, status, osenv, dotenvFile, reads, clients, locals, trace,
                   invocations, response, vector_store, agentTools, executorTools,
                   toolCount, lastTool, iterI, iterJ, pairs, textsInput>>

\* response.tool_calls[-1]['args']
LastArgs(resp) == resp.tool_calls[Len(resp.tool_calls)].args

\* response.tool_calls[0]['args']
FirstArgs(resp) == resp.tool_calls[1].args

\* get_word_length.invoke(args): the args are validated against the tool's
\* schema (one field, word) and the function runs, or validation raises
ToolInvoke ==
    /\ AtStmt /\ Cur.op = "tool_invoke"
    /\ LET args == FirstArgs(response) IN
         IF Len(args) = 1
         THEN /\ lastTool' = [name |-> Cur.tgt, args |-> args,
                              result |-> RunTool(Cur.tgt, args)]
              /\ toolCount' = toolCount + 1
              /\ trace' = Append(trace, Ev("tool", Cur.line, Cur.tgt))
              /\ pc' = pc + 1
              /\ UNCHANGED status
         ELSE /\ status' = Unhandled(status)
              /\ trace' = Append(trace, Ev("raise", Cur.line, Cur.tgt))
              /\ UNCHANGED <<lastTool, toolCount, pc>>
    /\ UNCHANGED <<script, osenv, dotenvFile, reads, clients, locals, invocations,
                   response, vector_store, agentTools, executorTools, iterI, iterJ,
                   pairs, textsInput>>

(* ------------------------------- loops --------------------------------- *)
\* basic_embeddings 36-37: for i, text in enumerate(texts, 1): print(...)
ForTexts ==
    /\ AtStmt /\ Cur.op = "for_texts"
    /\ IF iterI < Len(locals["texts"])
       THEN /\ iterI' = iterI + 1
            /\ trace' = Append(trace, Ev("print", Cur.line + 1, Cur.tgt))
            /\ UNCHANGED pc
       ELSE /\ iterI' = 0
            /\ pc' = pc + 1
            /\ UNCHANGED trace
    /\ UNCHANGED <<script, status, osenv, dotenvFile, reads, clients, locals,
                   invocations, response, vector_store, agentTools, executorTools,
                   toolCount, lastTool, iterJ, pairs, textsInput>>

\* range(i, len(texts))
InnerStartSelf(i) == i

\* range(i + 1, len(texts)) starts at i + 1
InnerStart(i) == i + 1

\* basic_embeddings 44: for i in range(len(texts)); iterI is the next value
\* of the range, so inside the body i = iterI - 1
ForI ==
    /\ AtStmt /\ Cur.op = "for_i"
    /\ IF iterI < Len(locals["texts"])
       THEN /\ iterI' = iterI + 1
            /\ iterJ' = InnerStart(iterI)
            /\ pc' = pc + 1
       ELSE /\ iterI' = 0
            /\ iterJ' = 0
            /\ pc' = pc + 2
    /\ UNCHANGED <<script, status, osenv, dotenvFile, reads, clients, locals, trace,
                   invocations, response, vector_store, agentTools, executorTools,
                   toolCount, lastTool, pairs, textsInput>>

\* the pair line 50 prints: "Text {i+1} <-> Text {j+1}"
PairPrinted(i, j) == <<i + 1, j + 1>>

\* basic_embeddings 45-50: for j in range(i + 1, len(texts)): similarity, print
ForJ ==
    /\ AtStmt /\ Cur.op = "for_j"
    /\ IF iterJ < Len(locals["texts"])
       THEN /\ pairs' = Append(pairs, PairPrinted(iterI - 1, iterJ))
            /\ iterJ' = iterJ + 1
            /\ trace' = Append(trace, Ev("print", Cur.line + 5, Cur.tgt))
            /\ UNCHANGED pc
       ELSE /\ pc' = pc - 1
            /\ UNCHANGED <<pairs, iterJ, trace>>
    /\ UNCHANGED <<script, status, osenv, dotenvFile, reads, clients, locals,
                   invocations, response, vector_store, agentTools, executorTools,
                   toolCount, lastTool, iterI, textsInput>>

\* basic_rag 76-77: for i, doc in enumerate(response['context'], 1): print(...)
ForContext ==
    /\ AtStmt /\ Cur.op = "for_context"
    /\ IF iterI < Len(response.context)
       THEN /\ iterI' = iterI + 1
            /\ trace' = Append(trace, Ev("print", Cur.line + 1, Cur.tgt))
            /\ UNCHANGED pc
       ELSE /\ iterI' = 0
            /\ pc' = pc + 1
            /\ UNCHANGED trace
    /\ UNCHANGED <<script, status, osenv, dotenvFile, reads, clients, locals,
                   invocations, response, vector_store, agentTools, executorTools,
                   toolCount, lastTool, iterJ, pairs, textsInput>>

\* main() returns and the interpreter exits
Finish ==
    /\ status = "running" /\ pc = Len(Prog(script)) + 1
    /\ status' = "done"
    /\ UNCHANGED <<script, pc, osenv, dotenvFile, reads, clients, locals, trace,
                   invocations, response, vector_store, agentTools, executorTools,
                   toolCount, lastTool, iterI, iterJ, pairs, textsInput>>

Next ==
    \/ LoadDotenv
    \/ Construct
    \/ Build
    \/ Assign
    \/ PrintLine
    \/ CallBegin
    \/ CallReturn
    \/ Raise
    \/ AgentToolStep
    \/ IfToolCalls
    \/ ToolInvoke
    \/ ForTexts
    \/ ForI
    \/ ForJ
    \/ ForContext
    \/ Finish

Spec == Init /\ [][Next]_vars

\* every enabled step is eventually taken: the interpreter runs the next
\* statement, and a blocking framework call comes back (returns or raises)
FairSpec == Spec /\ WF_vars(Next)

(* -------------------- the embeddings walkthrough on n texts ------------ *)
TextPool(k) == IF k <= Len(TextsLiteral) THEN TextsLiteral[k] ELSE "another text"
TextLists == {[k \in 1..n |-> TextPool(k)] : n \in 0..MaxTexts}

InitTexts ==
    /\ script = "basic_embeddings"
    /\ textsInput \in TextLists
    /\ InitRun

NextTexts ==
    \/ LoadDotenv
    \/ Construct
    \/ Assign
    \/ PrintLine
    \/ CallBegin
    \/ CallReturn
    \/ Raise
    \/ ForTexts
    \/ ForI
    \/ ForJ
    \/ Finish

TextsSpec == InitTexts /\ [][NextTexts]_vars

(* ------------------------------ properties ----------------------------- *)
TraceIdx == DOMAIN trace
IsConstruct(k) == trace[k].ev = "construct"
IsLoad(k) == trace[k].ev = "load"
IsInvoke(k) == trace[k].ev = "call" /\ trace[k].tag \in InvokeCallees
IsResultPrint(k) ==
    trace[k].ev = "print" /\ trace[k].tag \in {"result", "tool_name", "tool_args", "tool_result"}
Constructs == {k \in TraceIdx : IsConstruct(k)}
Invokes == {k \in TraceIdx : IsInvoke(k)}
LastLine == Prog(script)[Len(Prog(script))].line
FinalPrinted ==
    /\ trace # <<>>
    /\ trace[Len(trace)].ev = "print"
    /\ trace[Len(trace)].line = LastLine

PhaseOrder ==
    /\ \A k \in Constructs : \E l \in 1..(k - 1) : IsLoad(l)
    /\ \A k \in Constructs : \A m \in Invokes : k < m
    /\ \A k \in TraceIdx : IsResultPrint(k) => \E m \in 1..(k - 1) : IsInvoke(m)

\* C1 as stated: every script loads the environment, then constructs one or
\* two client objects, then invokes them, then prints results, in this order.
C1_FourPhases ==
    /\ PhaseOrder
    /\ status = "done" => Cardinality(Constructs) \in 1..2 /\ Invokes # {}

\* C1 amended: in every script the environment is loaded before any client
\* is constructed, every client construction precedes the first .invoke /
\* .embed_documents call, and result lines are printed only after such a
\* call; six scripts construct one or two clients and invoke at least once,
\* basic_mcp constructs none and invokes nothing, and in basic_rag the vector
\* store is built through the embeddings client before ChatOpenAI is
\* constructed.
C1_PhaseOrder ==
    /\ PhaseOrder
    /\ status = "done" =>
          IF script = "basic_mcp"
          THEN Constructs = {} /\ Invokes = {}
          ELSE Cardinality(Constructs) \in 1..2 /\ Invokes # {}
    /\ (status = "done" /\ script = "basic_rag") =>
          \E k \in TraceIdx, m \in Constructs :
              /\ trace[k].ev = "return" /\ trace[k].tag = "FAISS.from_documents"
              /\ trace[m].tag = "ChatOpenAI"
              /\ k < m

C1_Witness ==
    /\ status = "done" /\ script = "basic_rag"
    /\ Cardinality(Constructs) = 2 /\ Cardinality(Invokes) = 1

ExpectedInputs(s) ==
    CASE s = "basic_template" ->
           << <<"text=Hello, world!;language=French">>,
              <<"text=Hello, world!;language=Spanish">>,
              <<"text=Hello, world!;language=Japanese">> >>
      [] s = "structured_output" ->
           << <<"Premium wireless headphones with noise cancellation, only $199, available now">>,
              <<"Organic cotton t-shirt in blue, comfortable fit, $29.99, currently out of stock">> >>
      [] s = "basic_tool" -> << <<"How long is the word 'LangChain'?">> >>
      [] s = "basic_agent" -> << <<"What is 25 multiplied by 4, plus 10?">> >>
      [] s = "basic_mcp" -> << >>
      [] s = "basic_embeddings" ->
           << <<"The cat sat on the mat", "The feline rested on the rug",
                "Python is a programming language">> >>
      [] s = "basic_rag" -> << <<"What is RAG?">> >>

\* C2 as stated: a run in which no call fails invokes the constructed object
\* at least once and at most twice.
C2_OnceOrTwice == status = "done" => Len(invocations) \in 1..2

\* C2 amended: a run in which no call fails makes 3 (basic_template),
\* 2 (structured_output), 0 (basic_mcp) or 1 (the other four) invocations of
\* the constructed chain / model / agent / embeddings object, and the input
\* of each is the hard-coded literal, whatever the environment and the
\* earlier responses are.
C2_LiteralInvocations ==
    /\ Len(invocations) <= Len(ExpectedInputs(script))
    /\ \A k \in DOMAIN invocations : invocations[k].input = ExpectedInputs(script)[k]
    /\ status = "done" => Len(invocations) = Len(ExpectedInputs(script))

C2_Witness ==
    /\ status = "done" /\ script = "basic_template"
    /\ Len(invocations) = 3
    /\ response.content = "r2"
    /\ osenv["AI_MODEL"] = <<"dotenv", "AI_MODEL">>

ExpectedReads(s) ==
    CASE s \in {"basic_template", "structured_output", "basic_tool", "basic_agent"} ->
           {"AI_MODEL", "AI_ENDPOINT", "AI_API_KEY"}
      [] s = "basic_mcp" -> {}
      [] s = "basic_embeddings" -> {"AI_EMBEDDING_MODEL", "AI_ENDPOINT", "AI_API_KEY"}
      [] s = "basic_rag" -> EnvVars

ClientConfigured(c) ==
    /\ c.base_url = osenv["AI_ENDPOINT"]
    /\ c.api_key = osenv["AI_API_KEY"]
    /\ c.cls = "ChatOpenAI" => c.model = osenv["AI_MODEL"]
    /\ c.cls = "OpenAIEmbeddings" =>
          c.model = IF osenv["AI_EMBEDDING_MODEL"] = <<>>
                    THEN <<"text-embedding-3-small">>
                    ELSE osenv["AI_EMBEDDING_MODEL"]

\* C3 as stated: each script reads AI_MODEL, AI_ENDPOINT and AI_API_KEY,
\* optionally AI_EMBEDDING_MODEL (defaulting to text-embedding-3-small when
\* unset), and nothing else.
C3_AllReadThree ==
    /\ reads \subseteq EnvVars
    /\ status = "done" => {"AI_MODEL", "AI_ENDPOINT", "AI_API_KEY"} \subseteq reads
    /\ \A k \in DOMAIN clients : ClientConfigured(clients[k])

\* C3 amended: no script reads a variable other than AI_MODEL, AI_ENDPOINT,
\* AI_API_KEY and AI_EMBEDDING_MODEL; basic_template, structured_output,
\* basic_tool and basic_agent read the first three, basic_embeddings reads
\* AI_EMBEDDING_MODEL, AI_ENDPOINT and AI_API_KEY (not AI_MODEL), basic_rag
\* reads all four and basic_mcp reads none; each client is configured with
\* the values read, and an embeddings client whose AI_EMBEDDING_MODEL is
\* unset is configured with "text-embedding-3-small".
C3_EnvReads ==
    /\ reads \subseteq EnvVars
    /\ status = "done" => reads = ExpectedReads(script)
    /\ \A k \in DOMAIN clients : ClientConfigured(clients[k])

C3_Witness ==
    /\ status = "done" /\ script = "basic_embeddings"
    /\ osenv["AI_EMBEDDING_MODEL"] = <<>>
    /\ osenv["AI_API_KEY"] # <<>>
    /\ clients[1].model = <<"text-embedding-3-small">>

Raises == {k \in TraceIdx : trace[k].ev = "raise"}

\* C4: an exception raised by a framework call is never caught: the run is
\* in the error state at the statement that raised, the raise is the last
\* thing the run did (no retry, no later call, no later print), and the
\* closing message is not printed.
C4_UnhandledFailure ==
    /\ \A k \in Raises : k = Len(trace) /\ status = "error"
    /\ status = "error" =>
          /\ Raises # {}
          /\ trace[Len(trace)].line = Prog(script)[pc].line
          /\ \A k \in TraceIdx : ~(trace[k].ev = "print" /\ trace[k].tag = "closing")
          /\ Cardinality({k \in TraceIdx : trace[k].ev = "call"
                                             /\ trace[k].line = trace[Len(trace)].line}) <= 1

C4_Witness ==
    /\ status = "error" /\ script = "basic_template"
    /\ Len(invocations) = 2
    /\ trace[Len(trace)].line = 46

\* C5: get_word_length returns the number of characters of its argument
\* (0 for the empty word), and running it changes nothing but the result.
C5_WordLength ==
    [][(script = "basic_tool" /\ toolCount' = toolCount + 1) =>
          /\ lastTool'.result = Len(lastTool'.args[1])
          /\ lastTool'.args[1] = <<>> => lastTool'.result = 0
          /\ UNCHANGED <<script, status, osenv, dotenvFile, reads, clients, locals,
                         invocations, response, vector_store, agentTools,
                         executorTools, iterI, iterJ, pairs, textsInput>>]_vars

C5_Witness ==
    /\ script = "basic_tool" /\ toolCount = 1
    /\ lastTool.args = << <<"a", "a">> >>
    /\ lastTool.result = 2

Built(tgt) == \E k \in TraceIdx : trace[k].ev = "build" /\ trace[k].tag = tgt
Assigned(tgt) == \E k \in TraceIdx : trace[k].ev = "assign" /\ trace[k].tag = tgt
Returned(tgt) == \E k \in TraceIdx : trace[k].ev = "return" /\ trace[k].tag = tgt

\* C6: in basic_rag the documents list holds the same four documents in the
\* same order from its creation on, the vector store is built from exactly
\* that list, and the one question "What is RAG?" is asked only after the
\* vector store and the retriever are built.
C6_DocumentsFixed ==
    script = "basic_rag" =>
       /\ Assigned("documents") =>
             /\ Len(locals["documents"]) = 4
             /\ locals["documents"] = DocumentsLiteral
       /\ Returned("FAISS.from_documents") => vector_store = locals["documents"]
       /\ Len(invocations) <= 1
       /\ \A k \in DOMAIN invocations :
             /\ invocations[k].input = <<"What is RAG?">>
             /\ Returned("FAISS.from_documents")
             /\ Built("retriever")
             /\ vector_store = DocumentsLiteral

C6_Witness ==
    /\ script = "basic_rag" /\ status = "done"
    /\ Len(invocations) = 1
    /\ Len(response.context) = 2

\* C7: a run is suspended only inside a framework call, and when every
\* framework call comes back the run ends: after its final print statement,
\* or at the call that raised.
C7_Terminates ==
    /\ [](status = "blocked" => Prog(script)[pc].op = "call")
    /\ <>(status = "error" \/ (status = "done" /\ FinalPrinted))

C7_Witness ==
    /\ status = "done" /\ FinalPrinted
    /\ script = "basic_embeddings"
    /\ Len(pairs) = 3

\* C8: multiply returns a * b and add returns a + b, running either changes
\* nothing else, and create_react_agent and AgentExecutor are handed the
\* same list [multiply, add].
C8_AgentTools ==
    /\ [](script = "basic_agent" =>
            /\ lastTool.name = "multiply" => lastTool.result = lastTool.args[1] * lastTool.args[2]
            /\ lastTool.name = "add" => lastTool.result = lastTool.args[1] + lastTool.args[2]
            /\ Built("agent") => agentTools = <<"multiply", "add">>
            /\ Built("agent_executor") =>
                  executorTools = <<"multiply", "add">> /\ executorTools = agentTools)
    /\ [][(script = "basic_agent" /\ toolCount' = toolCount + 1) =>
            UNCHANGED <<script, pc, status, osenv, dotenvFile, reads, clients, locals,
                        trace, invocations, response, vector_store, agentTools,
                        executorTools, iterI, iterJ, pairs, textsInput>>]_vars

C8_Witness ==
    /\ script = "basic_agent" /\ status = "done"
    /\ toolCount = 2
    /\ lastTool = [name |-> "multiply", args |-> <<-2, 3>>, result |-> -6]

ToolPrints == {k \in TraceIdx : trace[k].ev = "print"
                                  /\ trace[k].tag \in {"tool_name", "tool_args", "tool_result"}}
ToolRuns == {k \in TraceIdx : trace[k].ev = "tool"}

\* C9: basic_tool invokes the model once; get_word_length runs iff the
\* response has a non-empty tool_calls list, then exactly once, on the args
\* of the first tool call whatever its name; its result is printed and no
\* call follows it; with no tool call no tool line is printed and the run
\* still ends with the closing message.
C9_FirstToolCallOnly ==
    script = "basic_tool" =>
       /\ Len(invocations) <= 1
       /\ toolCount <= 1 /\ Cardinality(ToolRuns) = toolCount
       /\ toolCount = 1 =>
             /\ response.tool_calls # <<>>
             /\ lastTool.name = "get_word_length"
             /\ lastTool.args = response.tool_calls[1].args
       /\ \A k \in ToolRuns : \A m \in TraceIdx : trace[m].ev = "call" => m < k
       /\ \A k \in TraceIdx : trace[k].tag = "get_word_length" => response.tool_calls # <<>>
       /\ (Returned("model_with_tools.invoke") /\ response.tool_calls = <<>>) =>
             ToolPrints = {} /\ toolCount = 0
       /\ status = "done" =>
             /\ Len(invocations) = 1
             /\ toolCount = 1 <=> response.tool_calls # <<>>
             /\ toolCount = 1 => \E k \in ToolPrints : trace[k].tag = "tool_result"
             /\ FinalPrinted /\ trace[Len(trace)].tag = "closing"

C9_Witness ==
    /\ script = "basic_tool" /\ status = "done"
    /\ Len(response.tool_calls) = 2
    /\ response.tool_calls[1].name = "other_tool"
    /\ response.tool_calls[1].args # response.tool_calls[2].args
    /\ toolCount = 1

C9_WitnessNoToolCall ==
    /\ script = "basic_tool" /\ status = "done"
    /\ response.tool_calls = <<>>

NTexts == Len(locals["texts"])
PairSet(n) == {<<a, b>> \in (1..n) \X (1..n) : a < b}
LexBefore(p, q) == p[1] < q[1] \/ (p[1] = q[1] /\ p[2] < q[2])

\* C10: embed_documents is called once, on the whole text list, and the
\* similarity loop prints one score for each pair i < j of distinct texts,
\* once, in lexicographic order: (1,2), (1,3), (2,3) for the three texts,
\* n*(n-1)/2 scores for n texts.
C10_PairsOnce ==
    /\ Len(invocations) <= 1
    /\ \A k \in DOMAIN invocations :
          /\ invocations[k].callee = "embeddings.embed_documents"
          /\ invocations[k].input = textsInput
    /\ pairs # <<>> => Len(invocations) = 1
    /\ \A k \in DOMAIN pairs : pairs[k] \in PairSet(NTexts)
    /\ \A k \in DOMAIN pairs : \A m \in DOMAIN pairs : k < m => LexBefore(pairs[k], pairs[m])
    /\ status = "done" =>
          /\ Len(invocations) = 1
          /\ {pairs[k] : k \in DOMAIN pairs} = PairSet(Len(textsInput))
          /\ 2 * Len(pairs) = Len(textsInput) * (Len(textsInput) - 1)
          /\ Len(textsInput) = 3 => pairs = << <<1, 2>>, <<1, 3>>, <<2, 3>> >>

C10_Witness ==
    /\ status = "done"
    /\ textsInput = TextsLiteral
    /\ pairs = << <<1, 2>>, <<1, 3>>, <<2, 3>> >>

====
